---- MODULE Spec2Model ----
(***************************************************************************)
(* NSE Order Block Scanner (src/orderblock_sccaner.py).                    *)
(*                                                                         *)
(* Prices are integers.  Fractions of the source (MIN_BULLISH_MOVE = 0.02, *)
(* ZONE_TOUCH_TOLERANCE = 0.001) are kept in thousandths (PerMille), and a *)
(* quotient a/b is kept as the pair <<a, b>> and compared by cross         *)
(* multiplication, so no rounding is introduced by the model.  NaN, the    *)
(* value pandas gives a missing cell, is the empty tuple; a present cell   *)
(* v of a resampled row is <<v>>.  None is a record of kind "None".        *)
(***************************************************************************)
EXTENDS Integers, Sequences, FiniteSets, TLC

VARIABLES
    \* module-level configuration (lines 25-27), in thousandths
    min_bullish_move, lookback_candles, zone_touch_tolerance,
    \* detect_bullish_order_block: its argument and its return value
    df, order_block,
    \* check_zone_interaction: its arguments and its return value
    candle, zone, status,
    \* fetch_stock_data: the provider's hourly frame and the returned frame
    hourly, resampled,
    \* which function the harness has applied ("none" before the call)
    applied,
    \* OrderBlockScannerApp: attributes and the widget state the handlers set
    scan_results, is_scanning, stock_list, use_custom_var, custom_text,
    filter_var, tree, progress, scan_button, export_button, status_label,
    metrics,
    \* the scan_stocks threads alive, and the callbacks root.after has queued
    threads, after_queue,
    \* history: the stock list and the provider's answers of the scan that
    \* finished last
    audit,
    \* history: during the scan in progress, start_scan has shown "A scan is
    \* already in progress!" (line 415)
    warned

\* what the application holds, the warning history apart
scanVars == <<scan_results, is_scanning, stock_list, use_custom_var, custom_text,
              filter_var, tree, progress, scan_button, export_button, status_label,
              metrics, threads, after_queue, audit>>

appVars == <<scanVars, warned>>

pureVars == <<min_bullish_move, lookback_candles, zone_touch_tolerance,
              df, order_block, candle, zone, status, hourly, resampled, applied>>

vars == <<pureVars, appVars>>

----------------------------------------------------------------------------
\* Program constants

PerMille == 1000
MIN_BULLISH_MOVE == 20
LOOKBACK_CANDLES == 50
ZONE_TOUCH_TOLERANCE == 1
MinBars == 5
MinScanBars == 10
BucketWidth == 4
ScanSkip == 3
ConfirmSpan == 3

\* Bounds of the model
MaxBars == 6
SampleSize == 1

None == [kind |-> "None"]
NaN == <<>>

Min(a, b) == IF a <= b THEN a ELSE b
Max(a, b) == IF a >= b THEN a ELSE b

----------------------------------------------------------------------------
\* Comparison of the float quotient num/den with a rate given in thousandths,
\* as IEEE division decides it: x/0 is +inf, -inf or NaN, and NaN >= r is false.
QuotientGE(q, rate) ==
    IF q = NaN THEN FALSE
    ELSE LET num == q[1]
             den == q[2]
         IN  IF den > 0 THEN num * PerMille >= rate * den
             ELSE IF den < 0 THEN num * PerMille <= rate * den
             ELSE num > 0

\* df.tail(n)
TailN(frame, n) ==
    IF Len(frame) <= n THEN frame
    ELSE SubSeq(frame, Len(frame) - n + 1, Len(frame))

is_bearish(bar) == bar.Close < bar.Open
is_bullish(bar) == bar.Close > bar.Open

\* recent_df['High'].shift(-1) at 0-based row i: the last row gets NaN
next_high(recent_df, i) ==
    IF i + 2 <= Len(recent_df) THEN <<recent_df[i + 2].High>> ELSE NaN

\* recent_df['move_percent'] at 0-based row i
move_percent(recent_df, i) ==
    IF next_high(recent_df, i) = NaN THEN NaN
    ELSE <<next_high(recent_df, i)[1] - recent_df[i + 1].Low, recent_df[i + 1].Low>>

\* the condition of lines 74-76 at 0-based row i
Stage1(recent_df, i, mbm) ==
    /\ is_bearish(recent_df[i + 1])
    /\ is_bullish(recent_df[i + 2])
    /\ QuotientGE(move_percent(recent_df, i), mbm)

\* recent_df.iloc[i+1:i+4], a slice clipped to the frame
FollowSlice(recent_df, i) ==
    SubSeq(recent_df, i + 2, Min(i + 1 + ConfirmSpan, Len(recent_df)))

RECURSIVE SeqMaxHigh(_)
SeqMaxHigh(bars) ==
    IF Len(bars) = 1 THEN bars[1].High
    ELSE Max(bars[1].High, SeqMaxHigh(Tail(bars)))

RECURSIVE SeqMinHigh(_)
SeqMinHigh(bars) ==
    IF Len(bars) = 1 THEN bars[1].High
    ELSE Min(bars[1].High, SeqMinHigh(Tail(bars)))

\* mutant of subsequent_high: the lowest follow-through high
subsequent_high_min(recent_df, i) ==
    IF FollowSlice(recent_df, i) = <<>> THEN NaN
    ELSE <<SeqMinHigh(FollowSlice(recent_df, i))>>

\* recent_df.iloc[i+1:i+4]['High'].max(); the max of an empty slice is NaN
subsequent_high(recent_df, i) ==
    IF FollowSlice(recent_df, i) = <<>> THEN NaN
    ELSE <<SeqMaxHigh(FollowSlice(recent_df, i))>>

\* the condition of line 79 at 0-based row i
Stage2(recent_df, i, mbm) ==
    QuotientGE(IF subsequent_high(recent_df, i) = NaN THEN NaN
               ELSE <<subsequent_high(recent_df, i)[1] - recent_df[i + 1].Low,
                      recent_df[i + 1].Low>>, mbm)

\* mutant of BlockAt: the zone's lower edge taken from the close
BlockAtClose(recent_df, i) ==
    [kind |-> "OrderBlock",
     zone_high |-> recent_df[i + 1].High,
     zone_low |-> recent_df[i + 1].Close,
     timestamp |-> recent_df[i + 1].ts,
     strength |-> move_percent(recent_df, i)]

\* the dict appended at lines 80-85
BlockAt(recent_df, i) ==
    [kind |-> "OrderBlock",
     zone_high |-> recent_df[i + 1].High,
     zone_low |-> recent_df[i + 1].Low,
     timestamp |-> recent_df[i + 1].ts,
     strength |-> move_percent(recent_df, i)]

\* order_blocks after the iterations i = 0 .. n-1 of the loop of line 70
RECURSIVE OrderBlocks(_, _, _)
OrderBlocks(recent_df, n, mbm) ==
    IF n <= 0 THEN <<>>
    ELSE LET before == OrderBlocks(recent_df, n - 1, mbm)
         IN  IF Stage1(recent_df, n - 1, mbm) /\ Stage2(recent_df, n - 1, mbm)
             THEN Append(before, BlockAt(recent_df, n - 1))
             ELSE before

\* mutant of LastBlock: the first confirmed block
FirstBlock(order_blocks) ==
    IF order_blocks # <<>> THEN order_blocks[1] ELSE None

\* lines 87-89
LastBlock(order_blocks) ==
    IF order_blocks # <<>> THEN order_blocks[Len(order_blocks)] ELSE None

\* detect_bullish_order_block(df) under the configuration (lookback, mbm)
detect_bullish_order_block(frame, lookback, mbm) ==
    IF frame = None \/ Len(frame.bars) < MinBars THEN None
    ELSE LET recent_df == TailN(frame.bars, lookback)
         IN  LastBlock(OrderBlocks(recent_df, Len(recent_df) - ScanSkip, mbm))

----------------------------------------------------------------------------
\* The application object after __init__ (lines 114-126 and create_ui).  A
\* symbol is the sequence of its parts, <<"TCS", ".NS">> for "TCS.NS"; a line
\* of the custom text is a sequence of tokens, " " standing for white space.

SampleNames ==
    << "TCS", "INFY", "RELIANCE", "HDFCBANK", "ICICIBANK",
       "WIPRO", "SBIN", "BHARTIARTL", "ITC", "HINDUNILVR",
       "LT", "AXISBANK", "KOTAKBANK", "MARUTI", "TITAN",
       "ASIANPAINT", "BAJFINANCE", "ULTRACEMCO", "NESTLEIND", "HCLTECH" >>

\* the first SampleSize entries of the list of lines 18-23
SAMPLE_STOCKS == [k \in 1..SampleSize |-> <<SampleNames[k], ".NS">>]

\* the first SampleSize lines of the text inserted at line 188
DefaultCustomText == [k \in 1..SampleSize |-> <<SampleNames[k]>>]

AppInit ==
    /\ scan_results = <<>>
    /\ is_scanning = FALSE
    /\ stock_list = SAMPLE_STOCKS
    /\ use_custom_var = FALSE
    /\ custom_text = DefaultCustomText
    /\ filter_var = "All Scanned"
    /\ tree = <<>>
    /\ progress = [value |-> 0, maximum |-> 100, packed |-> FALSE]
    /\ scan_button = "normal"
    /\ export_button = "disabled"
    /\ status_label = <<"Ready to scan. Click 'Start Scan' to begin.">>
    /\ metrics = [packed |-> FALSE, total |-> 0, inside |-> 0, touching |-> 0, other |-> 0]
    /\ threads = <<>>
    /\ after_queue = <<>>
    /\ audit = None
    /\ warned = FALSE

----------------------------------------------------------------------------
\* Harness of detect_bullish_order_block: any frame of up to MaxBars bars
\* under any configuration of Lookbacks x MinMoves.

\* candle shapes: a bearish bar, a strong bullish bar, a second bullish bar
\* and a narrow bearish bar (its low is within 2% of the first bullish high)
BearBar == [Open |-> 100, High |-> 102, Low |-> 98, Close |-> 97, Volume |-> 5]
StrongBullBar == [Open |-> 97, High |-> 110, Low |-> 96, Close |-> 108, Volume |-> 7]
BullBar == [Open |-> 108, High |-> 111, Low |-> 107, Close |-> 110, Volume |-> 0]
NarrowBearBar == [Open |-> 109, High |-> 109, Low |-> 108, Close |-> 108, Volume |-> 3]

BarShapes == {BearBar, StrongBullBar, BullBar, NarrowBearBar}

Bar(shape, t) ==
    [Open |-> shape.Open, High |-> shape.High, Low |-> shape.Low,
     Close |-> shape.Close, Volume |-> shape.Volume, ts |-> t]

DataFrame(bars) == [kind |-> "DataFrame", bars |-> bars]

\* the frame of the bars of the given shapes, one per 4-hour bucket, in
\* ascending time
FrameOf(shapes) ==
    DataFrame([k \in 1..Len(shapes) |-> Bar(shapes[k], BucketWidth * (k - 1))])

Lookbacks == {MinBars - 1, MinBars, LOOKBACK_CANDLES}
MinMoves == {MIN_BULLISH_MOVE, 2 * MIN_BULLISH_MOVE}

IdleZone ==
    /\ candle = None
    /\ zone = None
    /\ status = "none"

IdleFetch ==
    /\ hourly = None
    /\ resampled = None

InitDetect ==
    /\ AppInit
    /\ min_bullish_move \in MinMoves
    /\ lookback_candles \in Lookbacks
    /\ zone_touch_tolerance = ZONE_TOUCH_TOLERANCE
    /\ \/ df = None
       \/ \E n \in 0..MaxBars : \E shapes \in [1..n -> BarShapes] : df = FrameOf(shapes)
    /\ order_block = None
    /\ applied = "none"
    /\ IdleZone
    /\ IdleFetch

Detect ==
    /\ applied = "none"
    /\ order_block' = detect_bullish_order_block(df, lookback_candles, min_bullish_move)
    /\ applied' = "detect_bullish_order_block"
    /\ UNCHANGED <<min_bullish_move, lookback_candles, zone_touch_tolerance,
                   df, candle, zone, status, hourly, resampled>>
    /\ UNCHANGED appVars

NextDetect == Detect

SpecDetect == InitDetect /\ [][NextDetect]_vars

\* --- properties of the detector -------------------------------------------

Detected == applied = "detect_bullish_order_block"

\* the analysis window: the last lookback_candles bars of df, oldest first
Window ==
    LET n == Len(df.bars)
        k == IF n > lookback_candles THEN n - lookback_candles ELSE 0
    IN  [x \in 1..(n - k) |-> df.bars[x + k]]

\* 0-based indices the loop visits
Scanned == 0..(Len(Window) - 4)

\* a candidate as the claims define it: bearish bar, bullish successor, and
\* (high of the successor - low) / low >= min_bullish_move
Qualifies(i) ==
    /\ Window[i + 1].Close < Window[i + 1].Open
    /\ Window[i + 2].Close > Window[i + 2].Open
    /\ (Window[i + 2].High - Window[i + 1].Low) * PerMille
          >= min_bullish_move * Window[i + 1].Low

Candidates == { i \in Scanned : Qualifies(i) }

IsBlockOf(block, i) ==
    /\ block # None
    /\ block.zone_high = Window[i + 1].High
    /\ block.zone_low = Window[i + 1].Low
    /\ block.timestamp = Window[i + 1].ts

\* C1: on a frame of at least 5 bars the detector returns the block of the
\* temporally last qualifying candidate of the window (zone_high, zone_low and
\* timestamp of that bar, never of an earlier candidate), the only candidate
\* when there is exactly one, and None when there is none.
C1_ReturnsLastCandidate ==
    (Detected /\ df # None /\ Len(df.bars) >= MinBars) =>
        IF Candidates = {} THEN order_block = None
        ELSE \E j \in Candidates :
                /\ \A i \in Candidates : i <= j
                /\ IsBlockOf(order_block, j)

\* C1 witness: two candidates i < j with different zones, and the block of j
\* returned
C1_Witness ==
    /\ Detected
    /\ df # None
    /\ Len(df.bars) >= MinBars
    /\ \E i, j \in Candidates :
          /\ i < j
          /\ Window[i + 1].High # Window[j + 1].High
          /\ IsBlockOf(order_block, j)
          /\ ~IsBlockOf(order_block, i)

\* C2 (as claimed): whenever the analysis window holds fewer than 5 bars the
\* detector returns None, under every configuration.
C2_NoneOnShortWindow ==
    (Detected /\ df # None /\ Len(Window) < MinBars) => order_block = None

\* the bars of the scenario of C3
ScenarioT0 == [Open |-> 100, High |-> 102, Low |-> 98, Close |-> 97]
ScenarioT1 == [Open |-> 97, High |-> 110, Low |-> 96, Close |-> 108]

OHLC(bar) ==
    [Open |-> bar.Open, High |-> bar.High, Low |-> bar.Low, Close |-> bar.Close]

\* df starts with the four bars of the scenario
ScenarioPrefix ==
    /\ df # None
    /\ Len(df.bars) >= 4
    /\ OHLC(df.bars[1]) = ScenarioT0
    /\ OHLC(df.bars[2]) = ScenarioT1
    /\ df.bars[3].High = 111
    /\ df.bars[4].High = 109

ScenarioBlock ==
    [kind |-> "OrderBlock", zone_high |-> 102, zone_low |-> 98,
     timestamp |-> df.bars[1].ts, strength |-> <<110 - 98, 98>>]

\* C3 (as claimed): on the 4-bar window of the scenario, with
\* min_bullish_move = 0.02, the detector returns the block of t0.
C3_FourBarScenario ==
    (Detected /\ ScenarioPrefix /\ Len(df.bars) = 4
       /\ min_bullish_move = MIN_BULLISH_MOVE) => order_block = ScenarioBlock

\* C3 (amended): the 4-bar frame alone yields None; followed by one more bar
\* (a 5-bar frame inside the lookback), the scenario yields the block of t0:
\* zone_low 98, zone_high 102, timestamp t0, strength (110-98)/98.
C3_FiveBarScenario ==
    (Detected /\ ScenarioPrefix /\ min_bullish_move = MIN_BULLISH_MOVE) =>
        /\ Len(df.bars) = 4 => order_block = None
        /\ (Len(df.bars) = MinBars /\ lookback_candles >= MinBars)
              => order_block = ScenarioBlock

C3_Witness ==
    /\ Detected
    /\ ScenarioPrefix
    /\ Len(df.bars) = MinBars
    /\ lookback_candles = LOOKBACK_CANDLES
    /\ min_bullish_move = MIN_BULLISH_MOVE
    /\ order_block = ScenarioBlock

\* C10: in the loop, every scanned index that passes the first stage passes
\* the second, the slice i+1..i+3 always holds exactly three bars, and so the
\* confirmed blocks are exactly the stage-1 candidates.
C10_Stage2NeverRejects ==
    (Detected /\ df # None /\ Len(df.bars) >= MinBars) =>
        LET w == TailN(df.bars, lookback_candles)
            n == Len(w) - ScanSkip
        IN  /\ \A i \in 0..(Len(w) - 4) :
                  /\ Len(FollowSlice(w, i)) = 3
                  /\ Stage1(w, i, min_bullish_move) => Stage2(w, i, min_bullish_move)
            /\ Len(OrderBlocks(w, n, min_bullish_move))
                  = Cardinality({ i \in 0..(n - 1) : Stage1(w, i, min_bullish_move) })

\* C10 witness: the last scanned index passes stage 1 and is followed by a
\* high lower than the bearish bar's low (a spike that reverses)
C10_Witness ==
    /\ Detected
    /\ df # None
    /\ Len(df.bars) >= MinBars
    /\ LET w == TailN(df.bars, lookback_candles)
           i == Len(w) - 4
       IN  /\ i >= 0
           /\ Stage1(w, i, min_bullish_move)
           /\ w[i + 3].High < w[i + 1].Low
           /\ order_block # None
           /\ order_block.timestamp = w[i + 1].ts

----------------------------------------------------------------------------
\* check_zone_interaction (lines 92-106)

\* tolerance = zone_high * ZONE_TOUCH_TOLERANCE, kept in thousandths of a
\* price unit; prices are scaled by PerMille where they meet it
ToleranceOf(zone_high, ztt) == zone_high * ztt

\* low - tolerance <= level <= high + tolerance
WithinReach(current_low, current_high, level, tolerance) ==
    /\ current_low * PerMille - tolerance <= level * PerMille
    /\ level * PerMille <= current_high * PerMille + tolerance

\* mutant of InsideTest: an open interval
InsideTestOpen(current_price, zone_high, zone_low) ==
    zone_low < current_price /\ current_price < zone_high

\* line 96
InsideTest(current_price, zone_high, zone_low) ==
    zone_low <= current_price /\ current_price <= zone_high

\* mutant of TouchTest: only the upper boundary is tested
TouchTestHighOnly(current_low, current_high, zone_high, zone_low, tolerance) ==
    WithinReach(current_low, current_high, zone_high, tolerance)

\* lines 99-100
TouchTest(current_low, current_high, zone_high, zone_low, tolerance) ==
    \/ WithinReach(current_low, current_high, zone_high, tolerance)
    \/ WithinReach(current_low, current_high, zone_low, tolerance)

check_zone_interaction(current_price, current_low, current_high, zone_high, zone_low, ztt) ==
    LET tolerance == ToleranceOf(zone_high, ztt)
    IN  IF InsideTest(current_price, zone_high, zone_low) THEN "Inside Zone"
        ELSE IF TouchTest(current_low, current_high, zone_high, zone_low, tolerance)
             THEN "Touching Zone"
        ELSE IF current_low > zone_high THEN "Above Zone"
        ELSE "Below Zone"

\* Harness: any candle with Low <= High and any zone with zone_low <= zone_high
\* over Prices, with the shipped tolerance or none.
PriceSpan == 4
Prices == 998..(998 + PriceSpan)
Tolerances == {0, ZONE_TOUCH_TOLERANCE}

IdleDetect ==
    /\ df = None
    /\ order_block = None

InitZone ==
    /\ AppInit
    /\ min_bullish_move = MIN_BULLISH_MOVE
    /\ lookback_candles = LOOKBACK_CANDLES
    /\ zone_touch_tolerance \in Tolerances
    /\ candle \in { c \in [Close : Prices, Low : Prices, High : Prices] : c.Low <= c.High }
    /\ zone \in { z \in [zone_high : Prices, zone_low : Prices] : z.zone_low <= z.zone_high }
    /\ status = "none"
    /\ applied = "none"
    /\ IdleDetect
    /\ IdleFetch

Classify ==
    /\ applied = "none"
    /\ status' = check_zone_interaction(candle.Close, candle.Low, candle.High,
                                        zone.zone_high, zone.zone_low,
                                        zone_touch_tolerance)
    /\ applied' = "check_zone_interaction"
    /\ UNCHANGED <<min_bullish_move, lookback_candles, zone_touch_tolerance,
                   df, order_block, candle, zone, hourly, resampled>>
    /\ UNCHANGED appVars

NextZone == Classify

SpecZone == InitZone /\ [][NextZone]_vars

\* --- properties of the classifier -----------------------------------------

Classified == applied = "check_zone_interaction"

CloseInside == zone.zone_low <= candle.Close /\ candle.Close <= zone.zone_high

\* [Low - eps, High + eps] contains the level, eps = zone_high * tolerance;
\* all terms multiplied by PerMille
RangeContains(level) ==
    /\ PerMille * candle.Low - zone.zone_high * zone_touch_tolerance <= PerMille * level
    /\ PerMille * level <= PerMille * candle.High + zone.zone_high * zone_touch_tolerance

RangeTouches == RangeContains(zone.zone_high) \/ RangeContains(zone.zone_low)

\* C4: the classifier returns exactly one of the four statuses, by fixed
\* precedence: Inside when zone_low <= close <= zone_high (boundaries
\* included), else Touching when the widened range contains a zone boundary,
\* else Above when low > zone_high, else Below.
C4_TotalWithPrecedence ==
    Classified =>
        /\ status \in {"Inside Zone", "Touching Zone", "Above Zone", "Below Zone"}
        /\ (status = "Inside Zone") <=> CloseInside
        /\ (status = "Touching Zone") <=> (~CloseInside /\ RangeTouches)
        /\ (status = "Above Zone") <=>
              (~CloseInside /\ ~RangeTouches /\ candle.Low > zone.zone_high)
        /\ (status = "Below Zone") <=>
              (~CloseInside /\ ~RangeTouches /\ candle.Low <= zone.zone_high)

\* C4 witness: the close sits on a zone boundary of a zone the bar's range
\* also touches, and the status is Inside
C4_Witness ==
    /\ Classified
    /\ candle.Close = zone.zone_high
    /\ zone.zone_low < zone.zone_high
    /\ RangeTouches
    /\ status = "Inside Zone"

\* C5: a bar whose high equals zone_low, with the close outside the zone, is
\* Touching Zone, with the shipped tolerance and with tolerance 0.
C5_HighOnZoneLowTouches ==
    (Classified /\ candle.High = zone.zone_low /\ ~CloseInside)
        => status = "Touching Zone"

\* C5 witness: tolerance 0, high = zone_low < zone_high, close below the zone
C5_Witness ==
    /\ Classified
    /\ zone_touch_tolerance = 0
    /\ candle.High = zone.zone_low
    /\ zone.zone_low < zone.zone_high
    /\ candle.Close < zone.zone_low
    /\ status = "Touching Zone"

----------------------------------------------------------------------------
\* fetch_stock_data (lines 33-54).  Time is in hours from midnight of the
\* first day; '4H' bins start at multiples of BucketWidth, closed and
\* labelled on the left.

BucketOf(t) == t - (t % BucketWidth)

\* mutant of Bins: the bin holding the last bar is left out
BinsBeforeLast(bars) ==
    LET first == BucketOf(bars[1].ts)
        last == BucketOf(bars[Len(bars)].ts)
    IN  [k \in 1..((last - first) \div BucketWidth) |-> first + BucketWidth * (k - 1)]

\* the bin labels resample('4H') lays out: every bin from the first bar's to
\* the last bar's, the empty ones included
Bins(bars) ==
    LET first == BucketOf(bars[1].ts)
        last == BucketOf(bars[Len(bars)].ts)
    IN  [k \in 1..((last - first) \div BucketWidth + 1) |-> first + BucketWidth * (k - 1)]

\* the rows of one bin, in frame order
Group(bars, label) ==
    LET InBin(bar) == BucketOf(bar.ts) = label
    IN  SelectSeq(bars, InBin)

RECURSIVE SeqMaxOf(_), SeqMinOf(_), SeqSumOf(_)
SeqMaxOf(xs) == IF Len(xs) = 1 THEN xs[1] ELSE Max(xs[1], SeqMaxOf(Tail(xs)))
SeqMinOf(xs) == IF Len(xs) = 1 THEN xs[1] ELSE Min(xs[1], SeqMinOf(Tail(xs)))
SeqSumOf(xs) == IF xs = <<>> THEN 0 ELSE xs[1] + SeqSumOf(Tail(xs))

Column(group, name) == [k \in 1..Len(group) |-> group[k][name]]

\* the aggregations of lines 44-48; on an empty bin all are NaN but the sum,
\* which is 0
AggFirst(xs) == IF xs = <<>> THEN NaN ELSE <<xs[1]>>
AggMax(xs) == IF xs = <<>> THEN NaN ELSE <<SeqMaxOf(xs)>>
AggMin(xs) == IF xs = <<>> THEN NaN ELSE <<SeqMinOf(xs)>>
\* mutant of AggLast: the first value of the bin
AggLastAsFirst(xs) == IF xs = <<>> THEN NaN ELSE <<xs[1]>>
AggLast(xs) == IF xs = <<>> THEN NaN ELSE <<xs[Len(xs)]>>
AggSum(xs) == <<SeqSumOf(xs)>>

\* one row of .resample('4H').agg({...})
ResampleRow(bars, label) ==
    LET group == Group(bars, label)
    IN  [ts |-> label,
         Open |-> AggFirst(Column(group, "Open")),
         High |-> AggMax(Column(group, "High")),
         Low |-> AggMin(Column(group, "Low")),
         Close |-> AggLast(Column(group, "Close")),
         Volume |-> AggSum(Column(group, "Volume"))]

HasNaN(row) ==
    \/ row.Open = NaN
    \/ row.High = NaN
    \/ row.Low = NaN
    \/ row.Close = NaN
    \/ row.Volume = NaN

\* mutant of dropna: a row of zero volume is taken for a missing one
dropna_or_zero(rows) ==
    LET Keep(row) == ~HasNaN(row) /\ row.Volume # <<0>>
    IN  SelectSeq(rows, Keep)

\* .dropna(): the rows without a NaN cell
dropna(rows) ==
    LET Keep(row) == ~HasNaN(row)
    IN  SelectSeq(rows, Keep)

\* a complete row as a bar
RowBar(row) ==
    [Open |-> row.Open[1], High |-> row.High[1], Low |-> row.Low[1],
     Close |-> row.Close[1], Volume |-> row.Volume[1], ts |-> row.ts]

\* lines 43-49
Resample(bars) ==
    IF bars = <<>> THEN <<>>
    ELSE LET bins == Bins(bars)
             rows == dropna([k \in 1..Len(bins) |-> ResampleRow(bars, bins[k])])
         IN  [k \in 1..Len(rows) |-> RowBar(rows[k])]

\* fetch_stock_data, given what ticker.history did: raised, or returned a frame
fetch_stock_data(history) ==
    IF history.kind = "Error" THEN None
    ELSE IF history.bars = <<>> THEN None
    ELSE DataFrame(Resample(history.bars))

\* Harness: any hourly frame of up to MaxRaw bars at distinct hours below
\* MaxTime, or a provider failure.
MaxTime == 9
MaxRaw == 4

HourlyShapes == {BearBar, StrongBullBar, BullBar}

RECURSIVE SortedHours(_)
SortedHours(hours) ==
    IF hours = {} THEN <<>>
    ELSE LET h == CHOOSE x \in hours : \A y \in hours : x <= y
         IN  <<h>> \o SortedHours(hours \ {h})

InitFetch ==
    /\ AppInit
    /\ min_bullish_move = MIN_BULLISH_MOVE
    /\ lookback_candles = LOOKBACK_CANDLES
    /\ zone_touch_tolerance = ZONE_TOUCH_TOLERANCE
    /\ \/ hourly = [kind |-> "Error"]
       \/ \E hours \in SUBSET (0..(MaxTime - 1)) :
            /\ Cardinality(hours) <= MaxRaw
            /\ \E f \in [1..Cardinality(hours) -> HourlyShapes] :
                 hourly = DataFrame([k \in 1..Cardinality(hours) |->
                                        Bar(f[k], SortedHours(hours)[k])])
    /\ resampled = None
    /\ applied = "none"
    /\ IdleDetect
    /\ IdleZone

Fetch ==
    /\ applied = "none"
    /\ resampled' = fetch_stock_data(hourly)
    /\ applied' = "fetch_stock_data"
    /\ UNCHANGED <<min_bullish_move, lookback_candles, zone_touch_tolerance,
                   df, order_block, candle, zone, status, hourly>>
    /\ UNCHANGED appVars

NextFetch == Fetch

SpecFetch == InitFetch /\ [][NextFetch]_vars

\* --- properties of the aggregator -----------------------------------------

Fetched == applied = "fetch_stock_data"

\* the provider returned a frame with at least one bar
GotBars == hourly.kind = "DataFrame" /\ hourly.bars # <<>>

\* positions of the hourly bars that fall in the bucket starting at label
Members(label) ==
    { i \in 1..Len(hourly.bars) :
        label <= hourly.bars[i].ts /\ hourly.bars[i].ts < label + BucketWidth }

\* starts of the buckets that hold an hourly bar
NonEmptyBuckets ==
    { b \in { BucketWidth * q : q \in 0..MaxTime } : Members(b) # {} }

RECURSIVE VolumeOver(_)
VolumeOver(positions) ==
    IF positions = {} THEN 0
    ELSE LET i == CHOOSE x \in positions : TRUE
         IN  hourly.bars[i].Volume + VolumeOver(positions \ {i})

\* C6: the output holds one bar per non-empty bucket and none for an empty
\* one, in ascending bucket order, with open = first open of the bucket,
\* high = max high, low = min low, close = last close, volume = sum.
C6_OneBarPerNonEmptyBucket ==
    (Fetched /\ GotBars) =>
        /\ resampled # None
        /\ Len(resampled.bars) = Cardinality(NonEmptyBuckets)
        /\ \A k \in 1..(Len(resampled.bars) - 1) :
              resampled.bars[k].ts < resampled.bars[k + 1].ts
        /\ \A k \in 1..Len(resampled.bars) :
              LET out == resampled.bars[k]
                  m == Members(out.ts)
              IN  /\ out.ts \in NonEmptyBuckets
                  /\ \E i \in m : (\A j \in m : i <= j) /\ out.Open = hourly.bars[i].Open
                  /\ \E i \in m : (\A j \in m : j <= i) /\ out.Close = hourly.bars[i].Close
                  /\ \E i \in m : out.High = hourly.bars[i].High
                  /\ \A i \in m : hourly.bars[i].High <= out.High
                  /\ \E i \in m : out.Low = hourly.bars[i].Low
                  /\ \A i \in m : out.Low <= hourly.bars[i].Low
                  /\ out.Volume = VolumeOver(m)

\* C6 witness: an empty bucket lies between two non-empty ones, and a bucket
\* of several bars has a last close different from its first
C6_Witness ==
    /\ Fetched
    /\ GotBars
    /\ resampled # None
    /\ \E b \in NonEmptyBuckets :
          /\ Members(b + BucketWidth) = {}
          /\ b + 2 * BucketWidth \in NonEmptyBuckets
    /\ \E k \in 1..Len(resampled.bars) :
          \E i, j \in Members(resampled.bars[k].ts) :
              /\ i < j
              /\ hourly.bars[i].Close # hourly.bars[j].Close
              /\ resampled.bars[k].Close = hourly.bars[j].Close

\* C7 (as claimed): a non-empty input of fewer bars than fill one bucket
\* yields an empty output series, not an error.
C7_ShortInputGivesEmpty ==
    (Fetched /\ GotBars /\ Len(hourly.bars) < BucketWidth) =>
        (resampled # None /\ resampled.bars = <<>>)

\* C7 (amended): a non-empty input of fewer bars than fill one bucket yields,
\* without an error, a non-empty series: one bar for each bucket that holds
\* an input bar, partial buckets kept.
C7_ShortInputKeepsPartialBuckets ==
    (Fetched /\ GotBars /\ Len(hourly.bars) < BucketWidth) =>
        /\ resampled # None
        /\ Len(resampled.bars) >= 1
        /\ { resampled.bars[k].ts : k \in 1..Len(resampled.bars) } = NonEmptyBuckets

\* C7 witness: a single hourly bar comes out as one 4-hour bar
C7_Witness ==
    /\ Fetched
    /\ GotBars
    /\ Len(hourly.bars) = 1
    /\ resampled # None
    /\ Len(resampled.bars) = 1
    /\ resampled.bars[1].Close = hourly.bars[1].Close

\* one bar per bucket, each on its bucket's start
IsBucketed == \A k \in 1..Len(hourly.bars) : hourly.bars[k].ts % BucketWidth = 0

\* C9: resampling a frame that is already one bar per bucket, on the bucket
\* starts, returns the same frame bar for bar (timestamps, open, high, low,
\* close and volume).
C9_IdempotentOnAligned ==
    (Fetched /\ GotBars /\ IsBucketed) => resampled = hourly

\* C9 witness: an aligned frame with a gap and a bar of zero volume
C9_Witness ==
    /\ Fetched
    /\ GotBars
    /\ IsBucketed
    /\ Len(hourly.bars) >= 2
    /\ hourly.bars[2].ts > hourly.bars[1].ts + BucketWidth
    /\ \E k \in 1..Len(hourly.bars) : hourly.bars[k].Volume = 0
    /\ resampled = hourly

----------------------------------------------------------------------------
\* OrderBlockScannerApp (lines 113-591): the handlers that run on the UI
\* thread and the scan_stocks worker thread.  Each handler is one step of the
\* event loop; root.after(0, f) appends f to after_queue, which the event loop
\* serves in order.  The message boxes a handler shows, the stock count label
\* (always the length of stock_list) and export_csv, which writes a file and
\* nothing else, carry no state here.

IdlePure ==
    /\ min_bullish_move = MIN_BULLISH_MOVE
    /\ lookback_candles = LOOKBACK_CANDLES
    /\ zone_touch_tolerance = ZONE_TOUCH_TOLERANCE
    /\ applied = "none"
    /\ IdleDetect
    /\ IdleZone
    /\ IdleFetch

\* s.strip(): leading and trailing white space removed
RECURSIVE LStrip(_)
LStrip(line) ==
    IF line # <<>> /\ line[1] = " " THEN LStrip(Tail(line)) ELSE line

RECURSIVE RStrip(_)
RStrip(line) ==
    IF line # <<>> /\ line[Len(line)] = " "
    THEN RStrip(SubSeq(line, 1, Len(line) - 1)) ELSE line

Strip(line) == RStrip(LStrip(line))

\* line 406: [s.strip() + ".NS" for s in custom_stocks if s.strip()]
RECURSIVE CustomStocks(_)
CustomStocks(lines) ==
    IF lines = <<>> THEN <<>>
    ELSE IF Strip(lines[1]) # <<>>
         THEN <<Append(Strip(lines[1]), ".NS")>> \o CustomStocks(Tail(lines))
         ELSE CustomStocks(Tail(lines))

\* update_stock_list (lines 402-408): the new value of self.stock_list
update_stock_list ==
    IF use_custom_var THEN CustomStocks(custom_text) ELSE SAMPLE_STOCKS

\* symbol.replace('.NS', '')
RemoveNS(symbol) ==
    LET NotSuffix(part) == part # ".NS"
    IN  SelectSeq(symbol, NotSuffix)

\* round(x, 2) of a whole price
Round2(x) == (x * 100) \div 100

\* f"{strength*100:.1f}%": tenths of a percent, rounded to nearest
StrengthText(q) == <<(2 * PerMille * q[1] + q[2]) \div (2 * q[2]), "%">>

\* the dict appended at lines 470-479
ResultRow(symbol, frame, block) ==
    LET current_candle == frame.bars[Len(frame.bars)]
    IN  [Symbol |-> RemoveNS(symbol),
         Price |-> Round2(current_candle.Close),
         Zone_Low |-> Round2(block.zone_low),
         Zone_High |-> Round2(block.zone_high),
         Zone_Range |-> <<Round2(block.zone_low), " - ", Round2(block.zone_high)>>,
         Status |-> check_zone_interaction(current_candle.Close, current_candle.Low,
                                           current_candle.High, block.zone_high,
                                           block.zone_low, zone_touch_tolerance),
         Detected |-> block.timestamp,
         Strength |-> StrengthText(block.strength)]

\* What the market-data provider may answer for a symbol: a failure, an empty
\* frame, or hourly bars (two per 4-hour bucket) that resample to five bars
\* with a block pattern, to ten bullish bars, or to ten bars with two block
\* patterns.
Feeds == {"error", "empty", "short", "flat", "block"}

FeedPattern(feed) ==
    CASE feed = "short" -> <<BearBar, StrongBullBar, BullBar, NarrowBearBar, BullBar>>
      [] feed = "flat" -> [k \in 1..MinScanBars |-> BullBar]
      [] feed = "block" ->
            <<BearBar, StrongBullBar, BullBar, NarrowBearBar, BearBar,
              StrongBullBar, BullBar, NarrowBearBar, BullBar, BearBar>>
      [] OTHER -> <<>>

\* ticker.history(period="60d", interval="1h") for the feed
ticker_history(feed) ==
    IF feed = "error" THEN [kind |-> "Error"]
    ELSE LET pattern == FeedPattern(feed)
         IN  DataFrame([k \in 1..(2 * Len(pattern)) |->
                 Bar(pattern[(k + 1) \div 2],
                     BucketWidth * ((k - 1) \div 2) + 1 + ((k - 1) % 2))])

\* fetch_stock_data(symbol) (line 450) for each answer of the provider
FetchedFrame == [feed \in Feeds |-> fetch_stock_data(ticker_history(feed))]

\* detect_bullish_order_block(df) (line 455) for each answer of the provider
\* under each configuration
DetectedBlock ==
    [feed \in Feeds |-> [lookback \in Lookbacks |-> [mbm \in MinMoves |->
        detect_bullish_order_block(FetchedFrame[feed], lookback, mbm)]]]

\* mutant of scan_iteration: an instrument without data or without a block
\* ends the loop
scan_iteration_break(thread, feed) ==
    LET symbol == thread.list[thread.idx + 1]
        frame == FetchedFrame[feed]
        block == DetectedBlock[feed][lookback_candles][min_bullish_move]
    IN  IF frame = None \/ Len(frame.bars) < MinScanBars \/ block = None
        THEN [thread EXCEPT !.idx = Len(thread.list),
                            !.provided = Append(@, feed)]
        ELSE [thread EXCEPT !.idx = @ + 1,
                            !.provided = Append(@, feed),
                            !.results = Append(@, ResultRow(symbol, frame, block))]

\* one pass of the loop body of lines 446-481 (the root.after call apart),
\* given the feed that names what ticker.history does for this symbol;
\* thread.provided records it
scan_iteration(thread, feed) ==
    LET symbol == thread.list[thread.idx + 1]
        frame == FetchedFrame[feed]
        next == [thread EXCEPT !.idx = @ + 1, !.provided = Append(@, feed)]
    IN  IF frame = None \/ Len(frame.bars) < MinScanBars THEN next
        ELSE LET block == DetectedBlock[feed][lookback_candles][min_bullish_move]
             IN  IF block = None THEN next
                 ELSE [next EXCEPT !.results = Append(@, ResultRow(symbol, frame, block))]

\* display_results (lines 517-553): the rows of the table
Shown(result, filter_option) ==
    ~ \/ filter_option = "Inside Zone Only" /\ result.Status # "Inside Zone"
      \/ /\ filter_option \in {"Inside or Touching", "Active Zones"}
         /\ result.Status \notin {"Inside Zone", "Touching Zone"}

TagOf(result) ==
    IF result.Status = "Inside Zone" THEN "inside"
    ELSE IF result.Status = "Touching Zone" THEN "touching"
    ELSE "other"

RECURSIVE display_results(_, _)
display_results(results, filter_option) ==
    IF results = <<>> THEN <<>>
    ELSE IF Shown(results[1], filter_option)
         THEN <<[values |-> results[1], tag |-> TagOf(results[1])]>>
                  \o display_results(Tail(results), filter_option)
         ELSE display_results(Tail(results), filter_option)

RECURSIVE CountStatus(_, _)
CountStatus(results, wanted) ==
    IF results = <<>> THEN 0
    ELSE (IF results[1].Status = wanted THEN 1 ELSE 0) + CountStatus(Tail(results), wanted)

\* update_metrics (lines 561-571): the texts of the four boxes
update_metrics(results, packed) ==
    [packed |-> packed,
     total |-> Len(results),
     inside |-> CountStatus(results, "Inside Zone"),
     touching |-> CountStatus(results, "Touching Zone"),
     other |-> Len(results) - CountStatus(results, "Inside Zone")
                            - CountStatus(results, "Touching Zone")]

\* what the user may type into the custom list: blank lines only, or two
\* symbols among white space and an empty line
CustomTexts ==
    { << <<" ">>, <<>> >>,
      << <<" ", "SBIN", " ">>, <<>>, <<"TCS", ".NS">> >> }

FilterOptions ==
    {"All Scanned", "Inside Zone Only", "Inside or Touching", "Active Zones"}

Init ==
    /\ IdlePure
    /\ AppInit

\* the "Use Custom List" check button: the variable flips, then
\* toggle_custom_list (lines 395-400) enables or disables the text
ToggleCustom ==
    /\ use_custom_var' = ~use_custom_var
    /\ UNCHANGED <<scan_results, is_scanning, stock_list, custom_text, filter_var,
                   tree, progress, scan_button, export_button, status_label,
                   metrics, threads, after_queue, audit>>
    /\ UNCHANGED warned
    /\ UNCHANGED pureVars

\* the user edits the custom text, which is enabled while the box is checked
EditCustom ==
    /\ use_custom_var
    /\ \E text \in CustomTexts \cup {DefaultCustomText} :
          /\ text # custom_text
          /\ custom_text' = text
    /\ UNCHANGED <<scan_results, is_scanning, stock_list, use_custom_var, filter_var,
                   tree, progress, scan_button, export_button, status_label,
                   metrics, threads, after_queue, audit>>
    /\ UNCHANGED warned
    /\ UNCHANGED pureVars

\* a filter radio button: the variable is set, then apply_filter (lines 555-559)
ApplyFilter ==
    /\ \E option \in FilterOptions : filter_var' = option
    /\ IF scan_results # <<>>
       THEN /\ tree' = display_results(scan_results, filter_var')
            /\ metrics' = update_metrics(scan_results, metrics.packed)
       ELSE UNCHANGED <<tree, metrics>>
    /\ UNCHANGED <<scan_results, is_scanning, stock_list, use_custom_var, custom_text,
                   progress, scan_button, export_button, status_label,
                   threads, after_queue, audit>>
    /\ UNCHANGED warned
    /\ UNCHANGED pureVars

\* start_scan (lines 412-416): a scan is already in progress
StartScanBusy ==
    /\ is_scanning
    /\ warned' = TRUE
    /\ UNCHANGED scanVars
    /\ UNCHANGED pureVars

\* start_scan (lines 418-422): the stock list comes out empty
StartScanEmpty ==
    /\ ~is_scanning
    /\ update_stock_list = <<>>
    /\ stock_list' = update_stock_list
    /\ UNCHANGED <<scan_results, is_scanning, use_custom_var, custom_text, filter_var,
                   tree, progress, scan_button, export_button, status_label,
                   metrics, threads, after_queue, audit>>
    /\ UNCHANGED warned
    /\ UNCHANGED pureVars

\* mutant of StartScanLaunch: the is_scanning guard of line 414 is missing
StartScanLaunchUnguarded ==
    /\ update_stock_list # <<>>
    /\ stock_list' = update_stock_list
    /\ tree' = <<>>
    /\ scan_results' = <<>>
    /\ is_scanning' = TRUE
    /\ scan_button' = "disabled"
    /\ export_button' = "disabled"
    /\ status_label' = <<"Scanning in progress...">>
    /\ progress' = [value |-> 0, maximum |-> Len(stock_list'), packed |-> TRUE]
    /\ threads' = Append(threads, [pc |-> "start", list |-> <<>>, idx |-> 0,
                                   results |-> <<>>, provided |-> <<>>])
    /\ audit' = None
    /\ warned' = FALSE
    /\ UNCHANGED <<use_custom_var, custom_text, filter_var, metrics, after_queue>>
    /\ UNCHANGED pureVars

\* start_scan (lines 418-440): the table is cleared and a thread started
StartScanLaunch ==
    /\ ~is_scanning
    /\ update_stock_list # <<>>
    /\ stock_list' = update_stock_list
    /\ tree' = <<>>
    /\ scan_results' = <<>>
    /\ is_scanning' = TRUE
    /\ scan_button' = "disabled"
    /\ export_button' = "disabled"
    /\ status_label' = <<"Scanning in progress...">>
    /\ progress' = [value |-> 0, maximum |-> Len(stock_list'), packed |-> TRUE]
    /\ threads' = Append(threads, [pc |-> "start", list |-> <<>>, idx |-> 0,
                                   results |-> <<>>, provided |-> <<>>])
    /\ audit' = None
    /\ warned' = FALSE
    /\ UNCHANGED <<use_custom_var, custom_text, filter_var, metrics, after_queue>>
    /\ UNCHANGED pureVars

RemoveAt(seq, k) == SubSeq(seq, 1, k - 1) \o SubSeq(seq, k + 1, Len(seq))

\* scan_stocks, lines 444-446: the thread starts on the list it finds
ScanBegin(k) ==
    /\ threads[k].pc = "start"
    /\ threads' = [threads EXCEPT ![k] = [@ EXCEPT !.pc = "loop", !.list = stock_list]]
    /\ UNCHANGED <<scan_results, is_scanning, stock_list, use_custom_var, custom_text,
                   filter_var, tree, progress, scan_button, export_button,
                   status_label, metrics, after_queue, audit>>
    /\ UNCHANGED warned
    /\ UNCHANGED pureVars

\* scan_stocks, lines 446-481: one symbol
ScanIteration(k) ==
    /\ threads[k].pc = "loop"
    /\ threads[k].idx < Len(threads[k].list)
    /\ after_queue' = Append(after_queue,
                             [fn |-> "update_progress", value |-> threads[k].idx + 1,
                              symbol |-> threads[k].list[threads[k].idx + 1]])
    /\ \E feed \in Feeds :
          threads' = [threads EXCEPT ![k] = scan_iteration(threads[k], feed)]
    /\ UNCHANGED <<scan_results, is_scanning, stock_list, use_custom_var, custom_text,
                   filter_var, tree, progress, scan_button, export_button,
                   status_label, metrics, audit>>
    /\ UNCHANGED warned
    /\ UNCHANGED pureVars

\* mutant of ScanFinish: scan_complete is not handed to the event loop
ScanFinishSilent(k) ==
    /\ threads[k].pc = "loop"
    /\ threads[k].idx >= Len(threads[k].list)
    /\ scan_results' = threads[k].results
    /\ threads' = RemoveAt(threads, k)
    /\ audit' = [kind |-> "Audit", list |-> threads[k].list,
                 provided |-> threads[k].provided]
    /\ UNCHANGED <<is_scanning, stock_list, use_custom_var, custom_text, filter_var,
                   tree, progress, scan_button, export_button, status_label, metrics,
                   after_queue>>
    /\ UNCHANGED warned
    /\ UNCHANGED pureVars

\* scan_stocks, lines 483-484: the loop is over
ScanFinish(k) ==
    /\ threads[k].pc = "loop"
    /\ threads[k].idx >= Len(threads[k].list)
    /\ scan_results' = threads[k].results
    /\ after_queue' = Append(after_queue, [fn |-> "scan_complete"])
    /\ threads' = RemoveAt(threads, k)
    /\ audit' = [kind |-> "Audit", list |-> threads[k].list,
                 provided |-> threads[k].provided]
    /\ UNCHANGED <<is_scanning, stock_list, use_custom_var, custom_text, filter_var,
                   tree, progress, scan_button, export_button, status_label, metrics>>
    /\ UNCHANGED warned
    /\ UNCHANGED pureVars

\* the event loop runs update_progress (lines 486-489)
UpdateProgress ==
    /\ after_queue # <<>>
    /\ Head(after_queue).fn = "update_progress"
    /\ progress' = [progress EXCEPT !.value = Head(after_queue).value]
    /\ status_label' = <<"Scanning", Head(after_queue).symbol,
                         Head(after_queue).value, Len(stock_list)>>
    /\ after_queue' = Tail(after_queue)
    /\ UNCHANGED <<scan_results, is_scanning, stock_list, use_custom_var, custom_text,
                   filter_var, tree, scan_button, export_button, metrics, threads,
                   audit>>
    /\ UNCHANGED warned
    /\ UNCHANGED pureVars

\* the event loop runs scan_complete (lines 491-515)
ScanComplete ==
    /\ after_queue # <<>>
    /\ Head(after_queue).fn = "scan_complete"
    /\ after_queue' = Tail(after_queue)
    /\ is_scanning' = FALSE
    /\ scan_button' = "normal"
    /\ progress' = [progress EXCEPT !.packed = FALSE]
    /\ IF scan_results = <<>>
       THEN /\ status_label' = <<"Scan completed. No order blocks detected.">>
            /\ UNCHANGED <<export_button, tree, metrics>>
       ELSE /\ status_label' = <<"Scan completed! Found", Len(scan_results)>>
            /\ export_button' = "normal"
            /\ tree' = display_results(scan_results, filter_var)
            /\ metrics' = update_metrics(scan_results, TRUE)
    /\ UNCHANGED <<scan_results, stock_list, use_custom_var, custom_text, filter_var,
                   threads, audit>>
    /\ warned' = FALSE
    /\ UNCHANGED pureVars

Next ==
    \/ ToggleCustom
    \/ EditCustom
    \/ ApplyFilter
    \/ StartScanBusy
    \/ StartScanEmpty
    \/ StartScanLaunch
    \/ UpdateProgress
    \/ ScanComplete
    \/ \E k \in 1..Len(threads) : ScanBegin(k)
    \/ \E k \in 1..Len(threads) : ScanIteration(k)
    \/ \E k \in 1..Len(threads) : ScanFinish(k)

Spec == Init /\ [][Next]_vars

\* a step of some scan_stocks thread (lines 442-484)
WorkerStep ==
    \E k \in 1..Len(threads) : ScanBegin(k) \/ ScanIteration(k) \/ ScanFinish(k)

\* the event loop (root.mainloop, line 601) runs the callback that heads its
\* queue
EventLoopStep == UpdateProgress \/ ScanComplete

\* Scheduling: a thread that can take a step takes one (each fetch returns),
\* and the event loop runs a callback that is waiting.
Fairness ==
    /\ WF_vars(WorkerStep)
    /\ WF_vars(EventLoopStep)

FairSpec == Init /\ [][Next]_vars /\ Fairness

\* --- properties of the scan ------------------------------------------------

\* the block the detector finds in each feed's frame under the shipped
\* configuration
ShippedBlock ==
    [feed \in Feeds |->
        detect_bullish_order_block(FetchedFrame[feed], LOOKBACK_CANDLES, MIN_BULLISH_MOVE)]

\* the provider's answer resamples to at least 10 bars that hold an order block
HasBlock(feed) ==
    /\ FetchedFrame[feed] # None
    /\ Len(FetchedFrame[feed].bars) >= 10
    /\ ShippedBlock[feed] # None

\* the records a complete scan of list owes, given the provider's answers:
\* one per instrument with a block, in list order
RECURSIVE OwedRows(_, _, _)
OwedRows(list, provided, k) ==
    IF k > Len(list) THEN <<>>
    ELSE IF HasBlock(provided[k])
         THEN <<ResultRow(list[k], FetchedFrame[provided[k]], ShippedBlock[provided[k]])>>
                  \o OwedRows(list, provided, k + 1)
         ELSE OwedRows(list, provided, k + 1)

\* C8: no instrument stops a scan: a thread in its loop has fetched every
\* symbol before its index and scans the current stock_list, and when the
\* scan is over every symbol has been fetched and scan_results is, in list
\* order, one record for each instrument that had at least 10 bars and an
\* order block, the others being left out.
C8_ScanSkipsAndKeepsOrder ==
    /\ \A k \in 1..Len(threads) :
          threads[k].pc = "loop" =>
              /\ Len(threads[k].provided) = threads[k].idx
              /\ threads[k].idx <= Len(threads[k].list)
              /\ threads[k].list = stock_list
    /\ audit # None =>
          /\ Len(audit.provided) = Len(audit.list)
          /\ scan_results = OwedRows(audit.list, audit.provided, 1)

\* C8 witness: a finished scan in which an instrument without a usable frame
\* came before one with a block, whose record is the first of scan_results
C8_Witness ==
    /\ audit # None
    /\ ~is_scanning
    /\ \E i, j \in 1..Len(audit.list) :
          /\ i < j
          /\ ~HasBlock(audit.provided[i])
          /\ \A h \in 1..(j - 1) : ~HasBlock(audit.provided[h])
          /\ HasBlock(audit.provided[j])
          /\ scan_results # <<>>
          /\ scan_results[1].Symbol = RemoveNS(audit.list[j])

\* --- properties of the scan's concurrency -----------------------------------

\* scan_complete callbacks waiting in the event loop
PendingCompletes ==
    Cardinality({ n \in 1..Len(after_queue) : after_queue[n].fn = "scan_complete" })

\* a step of start_scan, whichever way it goes
StartScanStep == StartScanBusy \/ StartScanEmpty \/ StartScanLaunch

\* C11: at most one scan_stocks thread is alive; is_scanning is true exactly
\* from the launch of a thread until its scan_complete has run (a thread is
\* alive, or its scan_complete waits in the event loop); and a start_scan
\* called while is_scanning is true starts no thread and leaves scan_results,
\* stock_list, the table and the progress state as they are.
C11_SingleWorker ==
    /\ [](Len(threads) <= 1)
    /\ [](Len(threads) + PendingCompletes = IF is_scanning THEN 1 ELSE 0)
    /\ [][(is_scanning /\ StartScanStep) =>
             UNCHANGED <<threads, after_queue, is_scanning, scan_results, stock_list,
                         tree, progress, status_label, scan_button, export_button>>]_vars

\* C11 witness: start_scan has been refused during a scan whose thread has
\* since ended, its scan_complete still waiting in the event loop
C11_Witness ==
    /\ warned
    /\ is_scanning
    /\ threads = <<>>
    /\ PendingCompletes = 1
    /\ scan_results # <<>>

\* --- properties of the scan's termination ------------------------------------

\* C12: every started scan completes: while is_scanning is true the scan
\* button is disabled, and under fair scheduling of the thread and the event
\* loop scan_complete eventually runs, so that is_scanning is false and the
\* scan button enabled again, whether or not the scan found anything; the
\* export button is enabled exactly when no scan is running and scan_results
\* is not empty.
C12_ScanCompletes ==
    /\ is_scanning ~> (~is_scanning /\ scan_button = "normal")
    /\ [](is_scanning => scan_button = "disabled")
    /\ [](export_button = "normal" <=> (~is_scanning /\ scan_results # <<>>))

\* C12 witness: a scan of a list of several symbols is over, scan_complete
\* has run on its results and the buttons are enabled again
C12_Witness ==
    /\ audit # None
    /\ Len(audit.list) >= 2
    /\ ~is_scanning
    /\ after_queue = <<>>
    /\ scan_results # <<>>
    /\ tree # <<>>
    /\ scan_button = "normal"
    /\ export_button = "normal"

====
